---- MODULE Spec2Model ----
(***************************************************************************)
(* Model of the dictation editor component App (src/App.tsx).              *)
(*                                                                         *)
(* Every callback of the component runs to completion on the UI event      *)
(* loop, and React commits the state updates a callback queued before the  *)
(* next callback is dispatched, so one action is one callback together     *)
(* with the render that follows it.  The recognition engine                *)
(* (src/types.ts, interface SpeechRecognition), the synthesis service      *)
(* speakText and the <textarea> element are the environment: the engine    *)
(* and the textarea follow the Web Speech API and the HTML standard.       *)
(* App is the root component: it is unmounted only when the page goes      *)
(* away, so the effect cleanup is modelled for a language change.          *)
(***************************************************************************)
EXTENDS Integers, Sequences, FiniteSets, TLC

(***************************** bounds **************************************)
\* longest document text, in characters
MaxLen == 2
\* recognition engine objects alive at once (one per language effect run)
MaxInst == 2
\* utterances of the synthesis service alive at once
MaxUtter == 2
\* deferred caret placements (requestAnimationFrame) pending at once
MaxPending == 2
\* progress fractions are k / ProgressSteps, k \in 0..ProgressSteps
ProgressSteps == 2
\* longest document text the user edits under Spec
SessionMaxLen == 1
\* longest document text under EditSpec
EditMaxLen == 3

(***************************** text ****************************************)
\* enum Language
Languages == {"es-ES", "en-US", "fr-FR"}

\* JavaScript \s restricted to the characters of the model
Whitespace == {" ", "\n"}
\* \p{P} restricted to the characters of the model
Punctuation == {".", ",", ";", ":", "!", "?"}
\* /^[.,;:!?]/
NoSpaceBefore == {".", ",", ";", ":", "!", "?"}
\* sentence terminators of the normalizer
Terminators == {".", "!", "?"}

IsWhitespace(c) == c \in Whitespace

\* the letters of the model, lower case and upper case
LowerLetters == <<"a", "b", "c", "t">>

UpperLetters == <<"A", "B", "C", "T">>

\* String.prototype.toUpperCase / toLowerCase, one character
ToUpperChar(c) ==
  IF \E i \in 1..Len(LowerLetters) : LowerLetters[i] = c
  THEN UpperLetters[CHOOSE i \in 1..Len(LowerLetters) : LowerLetters[i] = c]
  ELSE c

ToLowerChar(c) ==
  IF \E i \in 1..Len(UpperLetters) : UpperLetters[i] = c
  THEN LowerLetters[CHOOSE i \in 1..Len(UpperLetters) : UpperLetters[i] = c]
  ELSE c

ToUpperCase(s) == [i \in 1..Len(s) |-> ToUpperChar(s[i])]

ToLowerCase(s) == [i \in 1..Len(s) |-> ToLowerChar(s[i])]

Min(a, b) == IF a < b THEN a ELSE b

Max(a, b) == IF a < b THEN b ELSE a

\* String.prototype.substring(a, b), indices from 0
Substring(s, a, b) ==
  LET lo == Max(0, Min(Min(a, b), Len(s)))
      hi == Max(0, Min(Max(a, b), Len(s)))
  IN  SubSeq(s, lo + 1, hi)

\* String.prototype.trimEnd
RECURSIVE TrimEnd(_)
TrimEnd(s) ==
  IF s = <<>> THEN s
  ELSE IF IsWhitespace(s[Len(s)]) THEN TrimEnd(SubSeq(s, 1, Len(s) - 1))
  ELSE s

\* String.prototype.trimStart
RECURSIVE TrimStart(_)
TrimStart(s) ==
  IF s = <<>> THEN s
  ELSE IF IsWhitespace(s[1]) THEN TrimStart(Tail(s))
  ELSE s

\* String.prototype.trim
Trim(s) == TrimEnd(TrimStart(s))

\* String.prototype.lastIndexOf(' '), -1 when absent
LastIndexOfSpace(s) ==
  LET hits == {i \in 1..Len(s) : s[i] = " "}
  IN  IF hits = {} THEN -1
      ELSE (CHOOSE i \in hits : \A j \in hits : j <= i) - 1

(***************************** state ***************************************)
VARIABLES
  text,             \* useState text, which is also textarea.value
  selectionStart,   \* textarea.selectionStart
  selectionEnd,     \* textarea.selectionEnd
  raf,              \* requestAnimationFrame callbacks not yet run, in order
  language,         \* useState language
  isListening,      \* useState isListening (SessionState Active)
  audioState,       \* useState audioState
  recognitionRef,   \* recognitionRef.current: an engine object, 0 for null
  shouldListenRef,  \* shouldListenRef.current (ListenIntent)
  stopAudioRef,     \* stopAudioRef.current: the utterance it stops, 0 for undefined
  eng,              \* per engine object: "idle", "running", "ending"
  engLang,          \* per engine object: recognition.lang
  utt,              \* per utterance: "none", "fetching", "speaking"
  uttLen,           \* per utterance: textLength captured by handlePlay
  cancelled,        \* history: handleStopAudio ran since the last play request
  last              \* history: the last callback, what it inserted and where

docVars == <<text, selectionStart, selectionEnd, raf>>
sessionVars == <<language, isListening, recognitionRef, shouldListenRef, eng, engLang>>
audioVars == <<audioState, stopAudioRef, utt, uttLen>>
vars == <<text, selectionStart, selectionEnd, raf, language, isListening,
          audioState, recognitionRef, shouldListenRef, stopAudioRef, eng,
          engLang, utt, uttLen, cancelled, last>>

Insts == 1..MaxInst

Utters == 1..MaxUtter

\* the value of the history variable last: the callback, the string it
\* inserted and the selection it read; of a progress callback, the step k of
\* its fraction, the caret it asked for and the text length it mapped
Callback(op, arg, sel) == [op |-> op, arg |-> arg, sel |-> sel]

(***************************** the textarea *********************************)
\* The document as the textarea holds it.
Doc(t, s, e, q) == [text |-> t, s |-> s, e |-> e, raf |-> q]

CurrentDoc == Doc(text, selectionStart, selectionEnd, raf)

\* mutant: a selection setter that stores the positions as given
SetSelectionRange_Unclamped(D, s, e) == [D EXCEPT !.s = s, !.e = e]

\* HTMLTextAreaElement.setSelectionRange: positions past the end point at
\* the end, and an end before the start collapses the selection at the end
SetSelectionRange(D, s, e) ==
  LET n  == Len(D.text)
      e1 == Max(0, Min(e, n))
      s1 == Max(0, Min(s, n))
  IN  [D EXCEPT !.s = IF e1 < s1 THEN e1 ELSE s1, !.e = e1]

\* textarea.selectionStart = v
SetSelectionStart(D, v) == SetSelectionRange(D, v, Max(D.e, v))

\* textarea.selectionEnd = v
SetSelectionEnd(D, v) == SetSelectionRange(D, D.s, v)

\* The render after setText(t): React assigns textarea.value when it differs
\* from the state, and the assignment moves the caret to the end of the text.
SetText(D, t) ==
  IF t = D.text THEN D
  ELSE [D EXCEPT !.text = t, !.s = Len(t), !.e = Len(t)]

\* requestAnimationFrame(cb): cb sets the selection to s..e; op tells the
\* order in which cb assigns the two ends
RequestAnimationFrame(D, op, s, e) ==
  [D EXCEPT !.raf = Append(D.raf, [op |-> op, s |-> s, e |-> e])]

\* one deferred callback
RunCallback(D, cb) ==
  IF cb.op = "caret"
  THEN SetSelectionStart(SetSelectionEnd(D, cb.e), cb.s)
  ELSE SetSelectionEnd(SetSelectionStart(D, cb.s), cb.e)

\* the frame: every pending callback, in the order it was requested
RECURSIVE RunFrame(_)
RunFrame(D) ==
  IF D.raf = <<>> THEN D
  ELSE RunFrame([RunCallback(D, Head(D.raf)) EXCEPT !.raf = Tail(D.raf)])

(***************************** text operations *****************************)
\* mutant: the caret is computed from the end of the selection
insertTextAtCursor_CaretFromEnd(D, textToInsert) ==
  LET start   == D.s
      end     == D.e
      newText == Substring(D.text, 0, start) \o textToInsert
                   \o Substring(D.text, end, Len(D.text))
      newCursorPos == end + Len(textToInsert)
  IN  RequestAnimationFrame(SetText(D, newText), "caret", newCursorPos, newCursorPos)

insertTextAtCursor(D, textToInsert) ==
  LET start   == D.s
      end     == D.e
      newText == Substring(D.text, 0, start) \o textToInsert
                   \o Substring(D.text, end, Len(D.text))
      newCursorPos == start + Len(textToInsert)
  IN  RequestAnimationFrame(SetText(D, newText), "caret", newCursorPos, newCursorPos)

\* mutant: the boundary is searched in the prefix as it is, untrimmed
WordTargetIndex_Untrimmed(currentText, start) ==
  LET textBefore     == Substring(currentText, 0, start)
      lastSpaceIndex == LastIndexOfSpace(textBefore)
  IN  IF lastSpaceIndex = -1 THEN 0 ELSE lastSpaceIndex + 1

\* the boundary a collapsed WORD delete deletes back to
WordTargetIndex(currentText, start) ==
  LET textBefore     == Substring(currentText, 0, start)
      trimmedBefore  == TrimEnd(textBefore)
      lastSpaceIndex == LastIndexOfSpace(trimmedBefore)
  IN  IF lastSpaceIndex = -1 THEN 0 ELSE lastSpaceIndex + 1

\* mutant: the last space is searched in the prefix as it is, untrimmed
WordDeleteCount_Untrimmed(currentText, start) ==
  LET textBefore     == Substring(currentText, 0, start)
      lastSpaceIndex == LastIndexOfSpace(textBefore)
      targetIndex    == IF lastSpaceIndex = -1 THEN 0 ELSE lastSpaceIndex + 1
      deleteCount    == start - targetIndex
  IN  IF deleteCount = 0 /\ start > 0 THEN 1 ELSE deleteCount

\* the number of characters a collapsed WORD delete removes
WordDeleteCount(currentText, start) ==
  LET deleteCount == start - WordTargetIndex(currentText, start)
  IN  IF deleteCount = 0 /\ start > 0 THEN 1 ELSE deleteCount

\* mutant: the character behind the caret is deleted, the caret stays
deleteAtCursor_Forward(D, mode) ==
  LET start == D.s
      end   == D.e
  IN  IF start # end
      THEN RequestAnimationFrame(
             SetText(D, Substring(D.text, 0, start)
                          \o Substring(D.text, end, Len(D.text))),
             "caret", start, start)
      ELSE IF start = 0 THEN D
      ELSE RequestAnimationFrame(
             SetText(D, Substring(D.text, 0, start)
                          \o Substring(D.text, end + 1, Len(D.text))),
             "caret", start, start)

deleteAtCursor(D, mode) ==
  LET start == D.s
      end   == D.e
      deleteCount == IF mode = "WORD" THEN WordDeleteCount(D.text, start) ELSE 1
  IN  IF start # end
      THEN RequestAnimationFrame(
             SetText(D, Substring(D.text, 0, start)
                          \o Substring(D.text, end, Len(D.text))),
             "caret", start, start)
      ELSE IF start = 0 THEN D
      ELSE RequestAnimationFrame(
             SetText(D, Substring(D.text, 0, start - deleteCount)
                          \o Substring(D.text, end, Len(D.text))),
             "caret", start - deleteCount, start - deleteCount)

\* /[\s\p{P}]/u
IsBoundary(c) == c \in Whitespace \cup Punctuation

\* while (targetStart > 0 && !boundary(textStr[targetStart - 1])) targetStart--
RECURSIVE ScanLeft(_, _)
ScanLeft(textStr, targetStart) ==
  IF targetStart > 0 /\ ~IsBoundary(textStr[targetStart])
  THEN ScanLeft(textStr, targetStart - 1)
  ELSE targetStart

\* while (targetEnd < textStr.length && !boundary(textStr[targetEnd])) targetEnd++
RECURSIVE ScanRight(_, _)
ScanRight(textStr, targetEnd) ==
  IF targetEnd < Len(textStr) /\ ~IsBoundary(textStr[targetEnd + 1])
  THEN ScanRight(textStr, targetEnd + 1)
  ELSE targetEnd

\* mutant: the title test does not exclude the all-upper text
ToggledChunk_TitleIncludesUpper(selectedText) ==
  LET isLower   == selectedText = ToLowerCase(selectedText)
      firstChar == SubSeq(selectedText, 1, 1)
      rest      == Tail(selectedText)
      isTitle   == /\ firstChar = ToUpperCase(firstChar)
                   /\ rest = ToLowerCase(rest)
  IN  IF isLower THEN ToUpperCase(firstChar) \o ToLowerCase(rest)
      ELSE IF isTitle THEN ToUpperCase(selectedText)
      ELSE ToLowerCase(selectedText)

\* the replacement toggleCase computes for the selected text
ToggledChunk(selectedText) ==
  LET isUpper   == selectedText = ToUpperCase(selectedText)
      isLower   == selectedText = ToLowerCase(selectedText)
      firstChar == SubSeq(selectedText, 1, 1)
      rest      == Tail(selectedText)
      isTitle   == /\ firstChar = ToUpperCase(firstChar)
                   /\ rest = ToLowerCase(rest)
                   /\ ~isUpper
  IN  IF isLower THEN ToUpperCase(firstChar) \o ToLowerCase(rest)
      ELSE IF isTitle THEN ToUpperCase(selectedText)
      ELSE ToLowerCase(selectedText)

\* mutant: the deferred callback puts a caret behind the replaced range
toggleCase_CaretBehind(D) ==
  LET start == D.s
      end   == D.e
      targetStart == IF start = end THEN ScanLeft(D.text, start) ELSE start
      targetEnd   == IF start = end THEN ScanRight(D.text, end) ELSE end
      selectedText == Substring(D.text, targetStart, targetEnd)
      newTextChunk == ToggledChunk(selectedText)
      newFullText == Substring(D.text, 0, targetStart) \o newTextChunk
                       \o Substring(D.text, targetEnd, Len(D.text))
  IN  IF targetStart = targetEnd THEN D
      ELSE RequestAnimationFrame(SetText(D, newFullText), "range",
                                 targetStart + Len(newTextChunk),
                                 targetStart + Len(newTextChunk))

toggleCase(D) ==
  LET start == D.s
      end   == D.e
      targetStart == IF start = end THEN ScanLeft(D.text, start) ELSE start
      targetEnd   == IF start = end THEN ScanRight(D.text, end) ELSE end
      selectedText == Substring(D.text, targetStart, targetEnd)
      newTextChunk == ToggledChunk(selectedText)
      newFullText == Substring(D.text, 0, targetStart) \o newTextChunk
                       \o Substring(D.text, targetEnd, Len(D.text))
  IN  IF targetStart = targetEnd THEN D
      ELSE RequestAnimationFrame(SetText(D, newFullText), "range",
                                 targetStart, targetStart + Len(newTextChunk))

(***************************** transcript ***********************************)
\* processTextChunk of services/textProcessing, as section 4.2 of the
\* specification states it: trim, then capitalise the first letter when the
\* context is empty or ends (whitespace aside) in a sentence terminator
processTextChunk(rawChunk, contextText, lang) ==
  LET t   == Trim(rawChunk)
      ctx == TrimEnd(contextText)
  IN  IF t = <<>> THEN t
      ELSE IF ctx = <<>> \/ ctx[Len(ctx)] \in Terminators
           THEN <<ToUpperChar(t[1])>> \o Tail(t)
           ELSE t

\* mutant: the separator does not look at the first character of the chunk
Separator_BeforePunctuation(currentText, processedChunk) ==
  IF /\ Len(currentText) > 0
     /\ ~IsWhitespace(currentText[Len(currentText)])
  THEN <<" ">>
  ELSE <<>>

\* the separator recognition.onresult puts before the processed chunk
Separator(currentText, processedChunk) ==
  LET trimmed == Trim(processedChunk)
  IN  IF /\ Len(currentText) > 0
         /\ ~IsWhitespace(currentText[Len(currentText)])
         /\ ~(trimmed # <<>> /\ trimmed[1] \in NoSpaceBefore)
      THEN <<" ">>
      ELSE <<>>

\* the string recognition.onresult inserts for a non-empty
\* finalTranscriptChunk, the concatenation of the finalized results
Inserted(currentText, finalTranscriptChunk, lang) ==
  LET processedChunk == processTextChunk(finalTranscriptChunk, currentText, lang)
      separator      == Separator(currentText, processedChunk)
  IN  separator \o Trim(processedChunk)

\* recognition.onresult on the document
ResultDoc(D, finalTranscriptChunk, lang) ==
  IF finalTranscriptChunk = <<>> THEN D
  ELSE insertTextAtCursor(D, Inserted(D.text, finalTranscriptChunk, lang))

(***************************** the engine ***********************************)
\* SpeechRecognition.start(): throws on an object that is already started
\* (no end event fired since its start), and may fail for a reason of its own
EngineStart(e, i, fail) ==
  IF e[i] = "idle" /\ ~fail
  THEN [eng |-> [e EXCEPT ![i] = "running"], threw |-> FALSE]
  ELSE [eng |-> e, threw |-> TRUE]

\* SpeechRecognition.stop(): a started object ends, its end event follows
EngineStop(e, i) == [e EXCEPT ![i] = IF @ = "running" THEN "ending" ELSE @]

\* SpeechRecognition.abort(): as stop(), without further results
EngineAbort(e, i) == [e EXCEPT ![i] = IF @ = "running" THEN "ending" ELSE @]

\* recognition.lang of the objects that can still act (the current one and
\* the started ones); an idle object nothing refers to is garbage
LiveLang(e, cur, el) ==
  [i \in Insts |-> IF i = cur \/ e[i] # "idle" THEN el[i] ELSE "none"]

(***************************** playback *************************************)
Audio(a, r, u) == [audioState |-> a, stopAudioRef |-> r, utt |-> u]

CurrentAudio == Audio(audioState, stopAudioRef, utt)

\* the stop handle speakText returned for utterance u
StopFn(u, ut) == [ut EXCEPT ![u] = "none"]

handleStopAudio(A) ==
  Audio("idle", 0,
        IF A.stopAudioRef # 0 THEN StopFn(A.stopAudioRef, A.utt) ELSE A.utt)

\* mutant: playback is left alone
StopIfActive_Never(A) == A

\* if (audioState !== 'idle') handleStopAudio()
StopIfActive(A) == IF A.audioState # "idle" THEN handleStopAudio(A) ELSE A

\* mutant: the position is rounded to the nearest character
CursorPosition_Rounded(textLength, k) ==
  Min((2 * textLength * k + ProgressSteps) \div (2 * ProgressSteps), textLength)

\* the caret the progress callback asks for
CursorPosition(textLength, k) ==
  Min((textLength * k) \div ProgressSteps, textLength)

SetDoc(D) ==
  /\ text' = D.text
  /\ selectionStart' = D.s
  /\ selectionEnd' = D.e
  /\ raf' = D.raf

SetAudio(A) ==
  /\ audioState' = A.audioState
  /\ stopAudioRef' = A.stopAudioRef
  /\ utt' = A.utt
  /\ uttLen' = [u \in Utters |-> IF A.utt[u] = "none" THEN 0 ELSE uttLen[u]]

\* the model's bounds on a document
Fits(D) == Len(D.text) <= Max(MaxLen, EditMaxLen) /\ Len(D.raf) <= MaxPending

(***************************** Init *****************************************)
\* The state after the first render and the first run of the effect.  The
\* browser either has the recognition capability (one engine object, built
\* for the initial language) or it has not (recognitionRef stays null).
Init ==
  /\ text = <<>>
  /\ selectionStart = 0
  /\ selectionEnd = 0
  /\ raf = <<>>
  /\ language = "es-ES"
  /\ isListening = FALSE
  /\ audioState = "idle"
  /\ recognitionRef \in {0, 1}
  /\ shouldListenRef = FALSE
  /\ stopAudioRef = 0
  /\ eng = [i \in Insts |-> "idle"]
  /\ engLang = [i \in Insts |-> IF i = recognitionRef THEN "es-ES" ELSE "none"]
  /\ utt = [u \in Utters |-> "none"]
  /\ uttLen = [u \in Utters |-> 0]
  /\ cancelled = FALSE
  /\ last = Callback("init", <<>>, <<0, 0>>)

(***************************** the session **********************************)
\* the listening session: the intent, the UI flag and the engine objects
Session(sl, il, e) == [shouldListen |-> sl, isListening |-> il, eng |-> e]

CurrentSession == Session(shouldListenRef, isListening, eng)

SetSession(S) ==
  /\ shouldListenRef' = S.shouldListen
  /\ isListening' = S.isListening
  /\ eng' = S.eng

\* mutant: the stop branch leaves the intent set
stopListening_KeepsIntent(S, cur) ==
  Session(S.shouldListen, FALSE, EngineStop(S.eng, cur))

\* toggleListening, "User wants to STOP"
stopListening(S, cur) ==
  Session(FALSE, FALSE, EngineStop(S.eng, cur))

\* mutant: the catch leaves the intent the try block has set
startListening_CatchKeepsIntent(S, cur, fail) ==
  LET r == EngineStart(S.eng, cur, fail)
  IN  IF r.threw THEN Session(TRUE, FALSE, r.eng)
      ELSE Session(TRUE, TRUE, r.eng)

\* toggleListening, "User wants to START": the try block and its catch
startListening(S, cur, fail) ==
  LET r == EngineStart(S.eng, cur, fail)
  IN  IF r.threw THEN Session(FALSE, FALSE, r.eng)
      ELSE Session(TRUE, TRUE, r.eng)

\* mutant: the catch of the restart leaves the intent set
OnEnd_KeepsIntentOnFailure(S, i, fail) ==
  LET ended == [S.eng EXCEPT ![i] = "idle"]
      r     == EngineStart(ended, i, fail)
  IN  IF S.shouldListen
      THEN IF r.threw THEN Session(TRUE, FALSE, r.eng)
           ELSE Session(TRUE, S.isListening, r.eng)
      ELSE Session(S.shouldListen, FALSE, ended)

\* recognition.onend of the engine object i, whose end event has fired
OnEnd(S, i, fail) ==
  LET ended == [S.eng EXCEPT ![i] = "idle"]
      r     == EngineStart(ended, i, fail)
  IN  IF S.shouldListen
      THEN IF r.threw THEN Session(FALSE, FALSE, r.eng)
           ELSE Session(TRUE, S.isListening, r.eng)
      ELSE Session(S.shouldListen, FALSE, ended)

\* the error codes that deny the permission or the service
Denial == {"not-allowed", "service-not-allowed"}

\* the error codes the engine reports in the model
ErrorKinds == Denial \cup {"no-speech"}

\* mutant: a denial clears the UI flag and leaves the intent set
OnError_KeepsIntent(S, kind) ==
  IF kind \in Denial THEN Session(S.shouldListen, FALSE, S.eng) ELSE S

\* mutant: every error code is fatal
OnError_AllFatal(S, kind) == Session(FALSE, FALSE, S.eng)

\* recognition.onerror
OnError(S, kind) ==
  IF kind \in Denial THEN Session(FALSE, FALSE, S.eng) ELSE S

\* toggleListening; fail: the engine's start() fails for a reason of its own
toggleListening(fail) ==
  /\ recognitionRef # 0
  /\ IF shouldListenRef
     THEN /\ SetSession(stopListening(CurrentSession, recognitionRef))
          /\ UNCHANGED <<audioVars, cancelled>>
     ELSE /\ SetAudio(StopIfActive(CurrentAudio))
          /\ cancelled' = (cancelled \/ audioState # "idle")
          /\ SetSession(startListening(CurrentSession, recognitionRef, fail))
  /\ engLang' = LiveLang(eng', recognitionRef, engLang)
  /\ last' = Callback("toggle", <<>>, <<0, 0>>)
  /\ UNCHANGED <<docVars, language, recognitionRef>>

\* the engine object i stops by itself; its end event is pending
EngineTerminate(i) ==
  /\ eng[i] = "running"
  /\ eng' = [eng EXCEPT ![i] = "ending"]
  /\ last' = Callback("terminate", <<>>, <<0, 0>>)
  /\ UNCHANGED <<docVars, audioVars, language, isListening, recognitionRef,
                 shouldListenRef, engLang, cancelled>>

\* the end event of the engine object i
onend(i, fail) ==
  /\ eng[i] = "ending"
  /\ SetSession(OnEnd(CurrentSession, i, fail))
  /\ engLang' = LiveLang(eng', recognitionRef, engLang)
  /\ last' = Callback("onend", <<>>, <<0, 0>>)
  /\ UNCHANGED <<docVars, audioVars, language, recognitionRef, cancelled>>

\* the error event of the engine object i; the session of an engine that
\* reported an error ends, its end event follows
onerror(i, kind) ==
  /\ eng[i] = "running"
  /\ SetSession(OnError(Session(shouldListenRef, isListening,
                                [eng EXCEPT ![i] = "ending"]), kind))
  /\ last' = Callback(kind, <<>>, <<0, 0>>)
  /\ UNCHANGED <<docVars, audioVars, language, recognitionRef, engLang, cancelled>>

\* the result event of the engine object i; the handler closes over the
\* language of the effect run that built the object
onresult(i, finalTranscriptChunk) ==
  /\ eng[i] = "running"
  /\ LET D == ResultDoc(CurrentDoc, finalTranscriptChunk, engLang[i])
     IN  /\ Fits(D)
         /\ SetDoc(D)
  /\ last' = Callback("onresult", Inserted(text, finalTranscriptChunk, engLang[i]),
                      <<selectionStart, selectionEnd>>)
  /\ UNCHANGED <<sessionVars, audioVars, cancelled>>

\* setLanguage(l) and the effect it re-runs: the cleanup aborts the engine
\* object of the previous run, the setup builds a new one
setLanguage(l) ==
  /\ l # language
  /\ language' = l
  /\ IF recognitionRef = 0
     THEN UNCHANGED <<recognitionRef, eng, engLang>>
     ELSE LET aborted == EngineAbort(eng, recognitionRef)
              free    == {j \in Insts : aborted[j] = "idle"}
          IN  /\ free # {}
              /\ recognitionRef' = CHOOSE j \in free : \A k \in free : j <= k
              /\ eng' = aborted
              /\ engLang' = LiveLang(aborted, recognitionRef',
                                     [engLang EXCEPT ![recognitionRef'] = l])
  /\ last' = Callback("language", <<>>, <<0, 0>>)
  /\ UNCHANGED <<docVars, audioVars, isListening, shouldListenRef, cancelled>>

(***************************** playback actions *****************************)
\* handlePlay up to its await: a new utterance is requested from speakText
handlePlay ==
  /\ Trim(text) # <<>>
  /\ \E u \in Utters :
       /\ utt[u] = "none"
       /\ \A w \in Utters : utt[w] = "none" => u <= w
       /\ utt' = [utt EXCEPT ![u] = "fetching"]
       /\ uttLen' = [uttLen EXCEPT ![u] = Len(text)]
  /\ audioState' = "loading"
  /\ IF shouldListenRef
     THEN SetSession(stopListening(CurrentSession, recognitionRef))
     ELSE UNCHANGED <<shouldListenRef, eng, isListening>>
  /\ cancelled' = FALSE
  /\ last' = Callback("play", <<>>, <<0, 0>>)
  /\ UNCHANGED <<docVars, language, recognitionRef, engLang, stopAudioRef>>

\* handlePlay after its await: speakText returned the stop handle of u
speakTextReturns(u) ==
  /\ utt[u] = "fetching"
  /\ utt' = [utt EXCEPT ![u] = "speaking"]
  /\ stopAudioRef' = u
  /\ last' = Callback("handle", <<>>, <<0, 0>>)
  /\ UNCHANGED <<docVars, sessionVars, audioState, uttLen, cancelled>>

\* the progress callback of utterance u, at fraction k / ProgressSteps
onProgress(u, k) ==
  /\ utt[u] = "speaking"
  /\ audioState' = "playing"
  /\ LET cursorPosition == CursorPosition(uttLen[u], k)
     IN  SetDoc(SetSelectionRange(CurrentDoc, cursorPosition, cursorPosition))
  /\ last' = Callback("progress", <<k>>,
                      <<CursorPosition(uttLen[u], k), uttLen[u]>>)
  /\ UNCHANGED <<sessionVars, stopAudioRef, utt, uttLen, cancelled>>

\* the completion callback of utterance u
onComplete(u) ==
  /\ utt[u] = "speaking"
  /\ SetAudio(Audio("idle", 0, [utt EXCEPT ![u] = "none"]))
  /\ last' = Callback("complete", <<>>, <<0, 0>>)
  /\ UNCHANGED <<docVars, sessionVars, cancelled>>

\* onStop of the toolbar
onStop ==
  /\ SetAudio(handleStopAudio(CurrentAudio))
  /\ cancelled' = TRUE
  /\ last' = Callback("stop", <<>>, <<0, 0>>)
  /\ UNCHANGED <<docVars, sessionVars>>

(***************************** editing actions ******************************)
KeyTypes == {"CHAR", "BACKSPACE", "DELETE_WORD", "TOGGLE_CASE"}

\* handleKeyboardPress; the types ENTER and SPACE insert their key as CHAR does
handleKeyboardPress(key, type) ==
  /\ LET D == CASE type = "BACKSPACE"   -> deleteAtCursor(CurrentDoc, "CHAR")
                [] type = "DELETE_WORD" -> deleteAtCursor(CurrentDoc, "WORD")
                [] type = "TOGGLE_CASE" -> toggleCase(CurrentDoc)
                [] OTHER                -> insertTextAtCursor(CurrentDoc, key)
     IN  /\ Fits(D)
         /\ SetDoc(D)
  /\ SetAudio(StopIfActive(CurrentAudio))
  /\ cancelled' = (cancelled \/ audioState # "idle")
  /\ last' = Callback(type, IF type = "CHAR" THEN key ELSE <<>>,
                      <<selectionStart, selectionEnd>>)
  /\ UNCHANGED sessionVars

handleClear ==
  /\ SetDoc(SetText(CurrentDoc, <<>>))
  /\ SetAudio(StopIfActive(CurrentAudio))
  /\ cancelled' = (cancelled \/ audioState # "idle")
  /\ last' = Callback("clear", <<>>, <<0, 0>>)
  /\ UNCHANGED sessionVars

\* onChange of the textarea: the browser has typed c over the selection and
\* put the caret behind it
onChange(c) ==
  /\ LET value == Substring(text, 0, selectionStart) \o <<c>>
                    \o Substring(text, selectionEnd, Len(text))
     IN  /\ Len(value) <= MaxLen
         /\ SetDoc(Doc(value, selectionStart + 1, selectionStart + 1, raf))
  /\ SetAudio(StopIfActive(CurrentAudio))
  /\ cancelled' = (cancelled \/ audioState # "idle")
  /\ last' = Callback("change", <<c>>, <<selectionStart, selectionEnd>>)
  /\ UNCHANGED sessionVars

\* the user puts the caret or drags a selection in the textarea
select(s, e) ==
  /\ s <= e
  /\ e <= Len(text)
  /\ <<s, e>> # <<selectionStart, selectionEnd>>
  /\ selectionStart' = s
  /\ selectionEnd' = e
  /\ last' = Callback("select", <<>>, <<0, 0>>)
  /\ UNCHANGED <<text, raf, sessionVars, audioVars, cancelled>>

\* the next frame: the deferred caret placements run
animationFrame ==
  /\ raf # <<>>
  /\ SetDoc(RunFrame(CurrentDoc))
  /\ last' = Callback("frame", <<>>, <<0, 0>>)
  /\ UNCHANGED <<sessionVars, audioVars, cancelled>>

(***************************** specifications *******************************)
\* the keys of the custom keyboard and the characters of the system keyboard
Keys == {<<"a">>, <<" ">>}

\* finalized transcripts the engine delivers
Transcripts == {<<"a">>, <<" ">>, <<".">>}

\* Spec: the session and the playback with every event of theirs; the user
\* types, dictates and deletes in a document of at most SessionMaxLen
\* characters and waits for the frame before the next edit.
ShortDoc == Len(text) < SessionMaxLen /\ raf = <<>>

Next ==
  \/ \E fail \in BOOLEAN : toggleListening(fail)
  \/ \E i \in Insts : EngineTerminate(i)
  \/ \E i \in Insts, fail \in BOOLEAN : onend(i, fail)
  \/ \E i \in Insts, kind \in ErrorKinds : onerror(i, kind)
  \/ \E i \in Insts : ShortDoc /\ onresult(i, <<"a">>)
  \/ \E l \in Languages : setLanguage(l)
  \/ handlePlay
  \/ \E u \in Utters : speakTextReturns(u)
  \/ \E u \in Utters, k \in 0..ProgressSteps : onProgress(u, k)
  \/ \E u \in Utters : onComplete(u)
  \/ onStop
  \/ ShortDoc /\ handleKeyboardPress(<<"a">>, "CHAR")
  \/ raf = <<>> /\ handleKeyboardPress(<<"a">>, "BACKSPACE")
  \/ handleClear
  \/ Len(text) < SessionMaxLen /\ onChange("a")
  \/ animationFrame

Spec == Init /\ [][Next]_vars

\* DocSpec: the document with every edit, selection and deferred caret
\* placement; one engine object dictates and one utterance at a time is
\* played, so that transcripts are inserted and playback moves the caret.
DocNext ==
  \/ \E key \in Keys, type \in KeyTypes :
       handleKeyboardPress(key, type) /\ Len(text') <= MaxLen
  \/ handleClear
  \/ \E key \in Keys : onChange(key[1])
  \/ \E s \in 0..MaxLen, e \in 0..MaxLen : select(s, e)
  \/ animationFrame
  \/ toggleListening(FALSE)
  \/ \E i \in Insts, chunk \in Transcripts :
       onresult(i, chunk) /\ Len(text') <= MaxLen
  \/ (\A u \in Utters : utt[u] = "none") /\ handlePlay
  \/ \E u \in Utters : speakTextReturns(u)
  \/ \E u \in Utters, k \in 0..ProgressSteps : onProgress(u, k)
  \/ \E u \in Utters : onComplete(u)

DocSpec == Init /\ [][DocNext]_vars

\* EditSpec: the text operations on every document of at most EditMaxLen
\* characters with every selection, while a session is listening: the keys of
\* the custom keyboard, the transcripts of the engine and the frame.
EditChars == {"a", "A", " ", "\n", "."}

EditDocs == UNION {[1..n -> EditChars] : n \in 0..EditMaxLen}

EditKeys == {<<"a">>, <<"\n">>}

EditTranscripts == {<<"a">>, <<" ">>, <<".">>, <<" ", "a">>}

EditInit ==
  /\ text \in EditDocs
  /\ selectionEnd \in 0..Len(text)
  /\ selectionStart \in 0..selectionEnd
  /\ raf = <<>>
  /\ language = "es-ES"
  /\ isListening = TRUE
  /\ audioState = "idle"
  /\ recognitionRef = 1
  /\ shouldListenRef = TRUE
  /\ stopAudioRef = 0
  /\ eng = [i \in Insts |-> IF i = 1 THEN "running" ELSE "idle"]
  /\ engLang = [i \in Insts |-> IF i = 1 THEN "es-ES" ELSE "none"]
  /\ utt = [u \in Utters |-> "none"]
  /\ uttLen = [u \in Utters |-> 0]
  /\ cancelled = FALSE
  /\ last = Callback("toggle", <<>>, <<0, 0>>)

EditNext ==
  \/ \E key \in EditKeys :
       handleKeyboardPress(key, "CHAR") /\ Len(text') <= EditMaxLen
  \/ \E type \in KeyTypes \ {"CHAR"} : handleKeyboardPress(<<>>, type)
  \/ \E i \in Insts, chunk \in EditTranscripts :
       onresult(i, chunk) /\ Len(text') <= EditMaxLen
  \/ animationFrame

EditSpec == EditInit /\ [][EditNext]_vars

\* PlaySpec: the playback of every document of at most EditMaxLen
\* characters, one utterance at a time, with every progress fraction.
PlayInit ==
  /\ text \in EditDocs
  /\ selectionStart = Len(text)
  /\ selectionEnd = Len(text)
  /\ raf = <<>>
  /\ language = "es-ES"
  /\ isListening = FALSE
  /\ audioState = "idle"
  /\ recognitionRef = 1
  /\ shouldListenRef = FALSE
  /\ stopAudioRef = 0
  /\ eng = [i \in Insts |-> "idle"]
  /\ engLang = [i \in Insts |-> IF i = 1 THEN "es-ES" ELSE "none"]
  /\ utt = [u \in Utters |-> "none"]
  /\ uttLen = [u \in Utters |-> 0]
  /\ cancelled = FALSE
  /\ last = Callback("change", <<>>, <<0, 0>>)

PlayNext ==
  \/ (\A u \in Utters : utt[u] = "none") /\ handlePlay
  \/ \E u \in Utters : speakTextReturns(u)
  \/ \E u \in Utters, k \in 0..ProgressSteps : onProgress(u, k)
  \/ \E u \in Utters : onComplete(u)
  \/ onStop

PlaySpec == PlayInit /\ [][PlayNext]_vars

(***************************** claims ***************************************)
\* the step is the end event of the engine object i
EndOf(i) == eng[i] = "ending" /\ last'.op = "onend" /\ eng'[i] # "ending"

\* the step starts no engine object
NoStart == \A j \in Insts : eng'[j] = "running" => eng[j] = "running"

\* the step is a callback that inserts last'.arg at the selection
Inserts == last'.op \in {"CHAR", "onresult"}

\* C1: every end event delivered while ListenIntent is true invokes start()
\* once on the engine that ended and on no other: either the engine runs
\* again and the session stays Active, or the call threw and ListenIntent
\* is cleared and the state Stopped; an end event delivered while
\* ListenIntent is false starts nothing, and only toggle() sets ListenIntent.
C1_RestartOncePerEnd ==
  [][ /\ \A i \in Insts : EndOf(i) =>
           /\ \A j \in Insts \ {i} : eng'[j] = eng[j]
           /\ IF shouldListenRef
              THEN \/ eng'[i] = "running" /\ shouldListenRef' /\ isListening'
                   \/ eng'[i] = "idle" /\ ~shouldListenRef' /\ ~isListening'
              ELSE eng'[i] = "idle" /\ ~shouldListenRef'
      /\ (~shouldListenRef /\ shouldListenRef') => last'.op = "toggle"
    ]_vars

\* an end event restarted the engine and the session is still Active
C1_Witness ==
  /\ last.op = "onend"
  /\ shouldListenRef
  /\ isListening
  /\ eng[recognitionRef] = "running"

\* C2: toggle() while Active clears ListenIntent, stops the current engine
\* and sets the state to Stopped; from then on no callback other than
\* toggle() starts an engine or leaves Stopped, whatever end event arrives.
C2_StopWinsRace ==
  [][ /\ (last'.op = "toggle" /\ shouldListenRef) =>
           /\ ~shouldListenRef'
           /\ ~isListening'
           /\ eng'[recognitionRef] # "running"
           /\ NoStart
      /\ (~shouldListenRef /\ ~isListening /\ last'.op # "toggle") =>
           /\ ~shouldListenRef'
           /\ ~isListening'
           /\ NoStart
    ]_vars

\* the end event of a stopped session was delivered and started nothing
C2_Witness ==
  /\ last.op = "onend"
  /\ ~shouldListenRef
  /\ ~isListening
  /\ recognitionRef # 0
  /\ \A i \in Insts : eng[i] = "idle"

\* C3: the end event of an engine object that a language change aborted
\* (one that is no longer recognitionRef.current) does not start it again.
C3_AbortedStaysDead ==
  [][ \A i \in Insts : (EndOf(i) /\ i # recognitionRef) => eng'[i] = "idle" ]_vars

\* C4: ListenIntent is never true while AudioState is Loading or Playing.
C4_ListenPlayExclusive ==
  ~(shouldListenRef /\ audioState \in {"loading", "playing"})

\* C5: an error of a denial kind clears ListenIntent and sets the state to
\* Stopped in the error callback, starting nothing; the end event that
\* follows starts nothing, and the state leaves Stopped only by toggle().
C5_DenialStops ==
  [][ /\ last'.op \in Denial =>
           ~shouldListenRef' /\ ~isListening' /\ NoStart
      /\ \A i \in Insts : (EndOf(i) /\ ~shouldListenRef /\ ~isListening) =>
           eng'[i] = "idle" /\ ~shouldListenRef' /\ ~isListening'
      /\ (~isListening /\ isListening') => last'.op = "toggle"
    ]_vars

\* a denial was reported to a listening session; its end event is pending
C5_Witness ==
  /\ last.op \in Denial
  /\ ~shouldListenRef
  /\ ~isListening
  /\ eng[recognitionRef] = "ending"

\* C6: an error of another kind changes neither ListenIntent, SessionState,
\* AudioState nor the Document and calls no engine method (the engine that
\* reported it is ending, the others are as they were); the end event then
\* attempts a restart exactly when ListenIntent is true.
C6_TransientSwallowed ==
  [][ /\ last'.op \in ErrorKinds \ Denial =>
           /\ UNCHANGED <<shouldListenRef, isListening, audioVars, docVars,
                          recognitionRef, language>>
           /\ \A j \in Insts : eng'[j] # eng[j] =>
                eng[j] = "running" /\ eng'[j] = "ending"
      /\ \A i \in Insts : EndOf(i) =>
           ((eng'[i] = "running" \/ (shouldListenRef /\ ~shouldListenRef'))
              <=> shouldListenRef)
    ]_vars

\* a transient error was reported to a listening session and swallowed
C6_Witness ==
  /\ last.op = "no-speech"
  /\ shouldListenRef
  /\ isListening
  /\ eng[recognitionRef] = "ending"

\* C7 as claimed: toggle() while Stopped sets ListenIntent, starts the engine
\* and makes the state Active, and playback in progress is cancelled.
C7_ToggleStarts ==
  [][ (last'.op = "toggle" /\ ~shouldListenRef) =>
        /\ shouldListenRef'
        /\ isListening'
        /\ eng'[recognitionRef] = "running"
        /\ audioState' = "idle"
        /\ audioState # "idle" => stopAudioRef' = 0
    ]_vars

\* C7 as amended: toggle() while Stopped calls start() once on the current
\* engine; if the call returns, ListenIntent is true and the state Active,
\* if it throws, ListenIntent is false and the state Stopped; either way
\* AudioState is Idle afterwards and, if it was not Idle before, the stored
\* stop handle has been invoked and cleared.
C7_ToggleStartsOrFails ==
  [][ (last'.op = "toggle" /\ ~shouldListenRef) =>
        /\ \A j \in Insts \ {recognitionRef} : eng'[j] = eng[j]
        /\ \/ /\ eng[recognitionRef] = "idle"
              /\ eng'[recognitionRef] = "running"
              /\ shouldListenRef'
              /\ isListening'
           \/ /\ eng'[recognitionRef] = eng[recognitionRef]
              /\ ~shouldListenRef'
              /\ ~isListening'
        /\ audioState' = "idle"
        /\ audioState # "idle" =>
             /\ stopAudioRef' = 0
             /\ stopAudioRef # 0 => utt'[stopAudioRef] = "none"
             /\ \A u \in Utters \ {stopAudioRef} : utt'[u] = utt[u]
    ]_vars

\* toggle() started listening and cancelled the playback in progress
C7_Witness ==
  /\ last.op = "toggle"
  /\ shouldListenRef
  /\ isListening
  /\ eng[recognitionRef] = "running"
  /\ cancelled
  /\ audioState = "idle"
  /\ stopAudioRef = 0

\* C8: once playback is cancelled, AudioState is Idle and stays Idle until
\* the next play request.
C8_CancelledStaysIdle == cancelled => audioState = "idle"

C10_InsertAddsLength ==
  [][ Inserts =>
        /\ Len(text') = Len(text) + Len(last'.arg)
        /\ raf' = Append(raf, [op |-> "caret",
                               s |-> selectionStart + Len(last'.arg),
                               e |-> selectionStart + Len(last'.arg)])
    ]_vars

\* C10 as amended: an insertion of s replaces the selection, so the new text
\* has length length(oldText) - (selectionEnd - selectionStart) + length(s);
\* it asks for the caret at oldSelectionStart + length(s), collapsed, and the
\* frame that follows puts it there.
C10_InsertReplacesSelection ==
  [][ /\ Inserts =>
           /\ Len(text') = Len(text) - (selectionEnd - selectionStart)
                             + Len(last'.arg)
           /\ raf' = Append(raf, [op |-> "caret",
                                  s |-> selectionStart + Len(last'.arg),
                                  e |-> selectionStart + Len(last'.arg)])
      /\ (last.op \in {"CHAR", "onresult"} /\ last'.op = "frame") =>
           /\ selectionStart' = last.sel[1] + Len(last.arg)
           /\ selectionEnd' = selectionStart'
    ]_vars

\* a key was inserted over a non-collapsed selection
C10_Witness ==
  /\ last.op = "CHAR"
  /\ last.sel[1] < last.sel[2]
  /\ raf # <<>>

\* the selection the last callback read was a caret
CaretRead == last.sel[1] = last.sel[2]

\* the request of a deferred caret placement at p
CaretAt(p) == [op |-> "caret", s |-> p, e |-> p]

\* C11: deleteAtCursor(doc, Char) on a caret at p > 0 removes exactly the
\* character at index p-1, every other character staying in place and in
\* order, and asks for the caret at p-1, collapsed, where the frame that
\* follows puts it; on a caret at 0 it changes neither text nor selection.
C11_CharDeleteRemovesOne ==
  [][ /\ (last'.op = "BACKSPACE" /\ selectionStart = selectionEnd) =>
           IF selectionStart > 0
           THEN /\ Len(text') = Len(text) - 1
                /\ \A i \in 1..Len(text') :
                     text'[i] = IF i < selectionStart THEN text[i] ELSE text[i + 1]
                /\ raf' = Append(raf, CaretAt(selectionStart - 1))
           ELSE UNCHANGED docVars
      /\ (last.op = "BACKSPACE" /\ CaretRead /\ last.sel[1] > 0
            /\ last'.op = "frame") =>
           /\ selectionStart' = last.sel[1] - 1
           /\ selectionEnd' = last.sel[1] - 1
    ]_vars

\* the character in front of other text was deleted: the text that stayed
\* is not empty and the caret is asked for at 0
C11_Witness ==
  /\ last.op = "BACKSPACE"
  /\ last.sel = <<1, 1>>
  /\ text # <<>>
  /\ raf # <<>>
  /\ raf[Len(raf)] = CaretAt(0)

\* the end of the prefix t[0..p) without its trailing whitespace
TrimmedEnd(t, p) ==
  CHOOSE n \in 0..p : /\ n = 0 \/ ~IsWhitespace(t[n])
                      /\ \A m \in (n + 1)..p : IsWhitespace(t[m])

\* the boundary of a word delete at p: behind the last space of the trimmed
\* prefix, 0 without one
WordBoundary(t, p) ==
  LET spaces == {i \in 1..TrimmedEnd(t, p) : t[i] = " "}
  IN  IF spaces = {} THEN 0 ELSE CHOOSE i \in spaces : \A j \in spaces : j <= i

HelloWorld == <<"h", "e", "l", "l", "o", " ", "w", "o", "r", "l", "d">>

\* C12: deleteAtCursor(doc, Word) on a caret at p removes exactly the
\* characters in [b, p), b being behind the last space of the prefix t[0..p)
\* trimmed of its trailing whitespace, or 0 without such a space; the text
\* behind the caret stays, and the caret is asked for at b, collapsed, where
\* the frame that follows puts it.  "hello world" with the caret at 11
\* becomes "hello " with the caret at 6.
C12_WordDeleteToBoundary ==
  [][ /\ (last'.op = "DELETE_WORD" /\ selectionStart = selectionEnd) =>
           LET p == selectionStart
               b == WordBoundary(text, p)
           IN  /\ text' = SubSeq(text, 1, b) \o SubSeq(text, p + 1, Len(text))
               /\ p > 0 => raf' = Append(raf, CaretAt(b))
               /\ p = 0 => raf' = raf
      /\ (last.op = "DELETE_WORD" /\ CaretRead /\ last.sel[1] > 0
            /\ last'.op = "frame") =>
           /\ selectionStart' = raf[Len(raf)].s
           /\ selectionEnd' = selectionStart'
      /\ LET D == deleteAtCursor(Doc(HelloWorld, 11, 11, <<>>), "WORD")
         IN  /\ D.text = SubSeq(HelloWorld, 1, 6)
             /\ RunFrame(D).s = 6
             /\ RunFrame(D).e = 6
    ]_vars

\* the word behind a space was deleted: the space stays and the caret is
\* asked for behind it
C12_Witness ==
  /\ last.op = "DELETE_WORD"
  /\ last.sel = <<2, 2>>
  /\ text = <<" ">>
  /\ raf # <<>>
  /\ raf[Len(raf)] = CaretAt(1)

\* the classes of a text by the case of its characters
AllUpper(w) == \A i \in 1..Len(w) : ToUpperChar(w[i]) = w[i]

AllLower(w) == \A i \in 1..Len(w) : ToLowerChar(w[i]) = w[i]

TitleCase(w) ==
  /\ ToUpperChar(w[1]) = w[1]
  /\ \A i \in 2..Len(w) : ToLowerChar(w[i]) = w[i]
  /\ ~AllUpper(w)

\* the text the rule of the classes gives for the range w
CaseRule(w) ==
  IF AllLower(w)
  THEN [i \in 1..Len(w) |-> IF i = 1 THEN ToUpperChar(w[i]) ELSE ToLowerChar(w[i])]
  ELSE IF TitleCase(w) THEN [i \in 1..Len(w) |-> ToUpperChar(w[i])]
  ELSE [i \in 1..Len(w) |-> ToLowerChar(w[i])]

\* the word that encloses a caret at p: the longest run of characters that
\* are neither whitespace nor punctuation to the left and to the right of p
WordStart(t, p) ==
  CHOOSE a \in 0..p : /\ \A i \in (a + 1)..p : ~IsBoundary(t[i])
                      /\ a = 0 \/ IsBoundary(t[a])

WordEnd(t, p) ==
  CHOOSE b \in p..Len(t) : /\ \A i \in (p + 1)..b : ~IsBoundary(t[i])
                           /\ b = Len(t) \/ IsBoundary(t[b + 1])

\* C13: toggleCase replaces its range (the selection, or the word that
\* encloses a caret) by the rule of the classes: AllLower becomes TitleCase
\* (first character upper, rest lower), TitleCase becomes AllUpper, AllUpper
\* and Mixed become AllLower; the text outside the range stays, and the
\* selection is asked for on the whole replaced range, where the frame that
\* follows puts it.  A caret that no word encloses changes nothing.
C13_ToggleCaseByClass ==
  [][ /\ last'.op = "TOGGLE_CASE" =>
           LET caret == selectionStart = selectionEnd
               a == IF caret THEN WordStart(text, selectionStart) ELSE selectionStart
               b == IF caret THEN WordEnd(text, selectionEnd) ELSE selectionEnd
           IN  IF a = b THEN UNCHANGED docVars
               ELSE /\ text' = SubSeq(text, 1, a) \o CaseRule(SubSeq(text, a + 1, b))
                                  \o SubSeq(text, b + 1, Len(text))
                    /\ raf' = Append(raf, [op |-> "range", s |-> a, e |-> b])
      /\ (last.op = "TOGGLE_CASE" /\ last'.op = "frame"
            /\ raf[Len(raf)].op = "range") =>
           /\ selectionStart' = raf[Len(raf)].s
           /\ selectionEnd' = raf[Len(raf)].e
    ]_vars

\* the word that encloses the caret, two characters long and in title case
\* before, is all upper case now and the selection is asked for on it
C13_Witness ==
  /\ last.op = "TOGGLE_CASE"
  /\ CaretRead
  /\ text = <<"A", "A">>
  /\ raf # <<>>
  /\ raf[Len(raf)] = [op |-> "range", s |-> 0, e |-> 2]

\* toggleCase and the frame that runs its deferred selection update
Toggled(D) == RunFrame(toggleCase(D))

\* the range toggleCase acts on in D
TargetStart(D) == IF D.s = D.e THEN WordStart(D.text, D.s) ELSE D.s

TargetEnd(D) == IF D.s = D.e THEN WordEnd(D.text, D.e) ELSE D.e

\* the range of D is a word of lower-case letters
OnLowerWord(D) ==
  /\ D.raf = <<>>
  /\ TargetStart(D) < TargetEnd(D)
  /\ \A i \in (TargetStart(D) + 1)..TargetEnd(D) :
       \E k \in 1..Len(LowerLetters) : D.text[i] = LowerLetters[k]

\* E is D with the range of D in the case form f and selected
RangeIn(D, E, f) ==
  /\ Len(E.text) = Len(D.text)
  /\ \A i \in 1..Len(D.text) :
       E.text[i] = IF TargetStart(D) < i /\ i <= TargetEnd(D)
                   THEN (CASE f = "lower" -> D.text[i]
                           [] f = "upper" -> ToUpperChar(D.text[i])
                           [] f = "title" -> IF i = TargetStart(D) + 1
                                             THEN ToUpperChar(D.text[i])
                                             ELSE D.text[i])
                   ELSE D.text[i]
  /\ E.s = TargetStart(D)
  /\ E.e = TargetEnd(D)
  /\ E.raf = <<>>

\* three toggles: lower, Title, UPPER, lower, each on the range of D
ThreeCycle(D) ==
  LET T1 == Toggled(D)
      T2 == Toggled(T1)
      T3 == Toggled(T2)
  IN  /\ RangeIn(D, T1, "title")
      /\ RangeIn(D, T2, "upper")
      /\ RangeIn(D, T3, "lower")

\* two toggles: lower, UPPER, lower, each on the range of D
TwoCycle(D) ==
  LET T1 == Toggled(D)
      T2 == Toggled(T1)
  IN  /\ RangeIn(D, T1, "upper")
      /\ RangeIn(D, T2, "lower")

Cat == <<"c", "a", "t">>

\* C14 as claimed: with the caret in, or the selection on, a word of
\* lower-case letters and no deferred update pending, three toggleCase
\* calls, each followed by its frame, give Title, UPPER and the first text
\* again, each acting on the same range; "cat" gives "Cat", "CAT", "cat".
C14_ThreeTogglesRestore ==
  /\ OnLowerWord(CurrentDoc) => ThreeCycle(CurrentDoc)
  /\ ThreeCycle(Doc(Cat, 1, 1, <<>>))

\* C14 as amended: the same for a word of two or more letters; on a word of
\* one letter Title and UPPER are one form, and two toggleCase calls give
\* UPPER and the first text again.
C14_TogglesCycle ==
  /\ OnLowerWord(CurrentDoc) =>
       IF TargetEnd(CurrentDoc) - TargetStart(CurrentDoc) >= 2
       THEN ThreeCycle(CurrentDoc)
       ELSE TwoCycle(CurrentDoc)
  /\ ThreeCycle(Doc(Cat, 1, 1, <<>>))

\* the third toggle of a cycle and its frame have run: the word of two
\* letters is in lower case again and selected
C14_Witness ==
  /\ last.op = "frame"
  /\ raf = <<>>
  /\ text = <<"a", "a">>
  /\ selectionStart = 0
  /\ selectionEnd = 2

\* the inserted string without the separator in front of it
CleanChunk(ins) == IF ins # <<>> /\ ins[1] = " " THEN Tail(ins) ELSE ins

Hola == <<"H", "o", "l", "a">>

Mundo == <<"m", "u", "n", "d", "o">>

\* C15: a result with a non-empty clean chunk inserts, at the selection, one
\* space and the chunk, or the chunk alone when the document is empty, ends
\* in whitespace, or the chunk begins with one of . , ; : ! ?  The chunk
\* "mundo" after "Hola" gives "Hola mundo", the chunk "." gives "Hola.".
C15_SeparatorRule ==
  [][ /\ (last'.op = "onresult" /\ CleanChunk(last'.arg) # <<>>) =>
           LET ins   == last'.arg
               clean == CleanChunk(ins)
               bare  == \/ text = <<>>
                        \/ text[Len(text)] \in {" ", "\n"}
                        \/ clean[1] \in {".", ",", ";", ":", "!", "?"}
           IN  /\ clean[1] \notin {" ", "\n"}
               /\ ins = IF bare THEN clean ELSE <<" ">> \o clean
               /\ text' = SubSeq(text, 1, selectionStart) \o ins
                            \o SubSeq(text, selectionEnd + 1, Len(text))
      /\ ResultDoc(Doc(Hola, 4, 4, <<>>), Mundo, "es-ES").text
           = Hola \o <<" ">> \o Mundo
      /\ ResultDoc(Doc(Hola, 4, 4, <<>>), <<".">>, "es-ES").text
           = Hola \o <<".">>
    ]_vars

\* a chunk was dictated behind a text that does not end in whitespace: a
\* space and the chunk were appended
C15_Witness ==
  /\ last.op = "onresult"
  /\ last.arg = <<" ", "a">>
  /\ last.sel = <<1, 1>>
  /\ text = <<"a", " ", "a">>

\* C16: a result whose clean chunk is empty is skipped: the text and the
\* selection of the Document stay as they are, neither a chunk nor a
\* separator is inserted.
C16_EmptyChunkSkipped ==
  [][ (last'.op = "onresult" /\ CleanChunk(last'.arg) = <<>>) =>
        UNCHANGED <<text, selectionStart, selectionEnd>>
    ]_vars

\* floor(n / d) for n >= 0 and d > 0
Floor(n, d) == CHOOSE q \in 0..n : q * d <= n /\ n < (q + 1) * d

\* C17: the caret the progress callback asks for at the fraction
\* k / ProgressSteps of an utterance of textLength characters is
\* floor(textLength * fraction) clamped to [0, textLength]; it does not
\* decrease as the fraction grows; and textLength, the divisor of the scroll
\* ratio, is not 0.  (0.5, 10) gives 5, (1.0, 10) gives 10, (0, 0) gives 0.
C17_ProgressMapping ==
  [][ /\ last'.op = "progress" =>
           LET k          == last'.arg[1]
               asked      == last'.sel[1]
               textLength == last'.sel[2]
           IN  /\ asked = Max(0, Min(Floor(textLength * k, ProgressSteps), textLength))
               /\ \A j \in 0..k : CursorPosition(textLength, j) <= asked
               /\ textLength # 0
               /\ selectionStart' = Min(asked, Len(text))
               /\ selectionEnd' = selectionStart'
      /\ \A k \in 0..ProgressSteps : 2 * k = ProgressSteps => CursorPosition(10, k) = 5
      /\ CursorPosition(10, ProgressSteps) = 10
      /\ CursorPosition(0, 0) = 0
    ]_vars

\* a progress callback in the middle of an utterance of three characters
\* has put the caret inside the text
C17_Witness ==
  /\ last.op = "progress"
  /\ last.sel[2] = 3
  /\ 0 < last.sel[1]
  /\ last.sel[1] < 3
  /\ selectionStart = last.sel[1]
  /\ audioState = "playing"

\* n word deletes, each followed by its frame
RECURSIVE WordDeletes(_, _)
WordDeletes(D, n) ==
  IF n = 0 THEN D
  ELSE WordDeletes(RunFrame(deleteAtCursor(D, "WORD")), n - 1)

\* C18: deleteAtCursor(doc, Word) on a caret at p > 0 removes at least one
\* character and asks for a caret before p, where the frame that follows
\* puts it; the delete count it computes is not zero, so the fallback of
\* one character is never taken; and p word deletes from a caret at p, each
\* followed by its frame, reach the caret 0.
C18_WordDeleteProgress ==
  [][ /\ (last'.op = "DELETE_WORD" /\ selectionStart = selectionEnd
            /\ selectionStart > 0) =>
           /\ Len(text') < Len(text)
           /\ raf' # <<>>
           /\ raf'[Len(raf')].s < selectionStart
           /\ raf'[Len(raf')].e = raf'[Len(raf')].s
           /\ selectionStart - WordTargetIndex(text, selectionStart) > 0
      /\ (last.op = "DELETE_WORD" /\ CaretRead /\ last.sel[1] > 0
            /\ last'.op = "frame") =>
           /\ selectionStart' < last.sel[1]
           /\ selectionEnd' = selectionStart'
      /\ (raf = <<>> /\ selectionStart = selectionEnd) =>
           LET D == WordDeletes(CurrentDoc, selectionStart)
           IN  D.s = 0 /\ D.e = 0
    ]_vars

\* a word delete at the end of two words has left the first word and the
\* space, and asks for the caret behind them: a second one is needed
C18_Witness ==
  /\ last.op = "DELETE_WORD"
  /\ last.sel = <<3, 3>>
  /\ Len(text) = 2
  /\ raf # <<>>
  /\ raf[Len(raf)] = CaretAt(2)

\* C19: after every callback (toggle, end, error, play request, language
\* change) the session is Active, isListening true, exactly when ListenIntent,
\* shouldListenRef, is true.
C19_IntentMatchesFlag == isListening <=> shouldListenRef

\* the language was changed while the session was Active: the intent and
\* the flag are both still set
C19_Witness ==
  /\ last.op = "language"
  /\ shouldListenRef
  /\ isListening

\* C20: at most one engine object is running at any time, and a running
\* one is the object recognitionRef holds, built for the current language;
\* so no other object delivers results into the document.
C20_SingleRunningEngine ==
  /\ Cardinality({i \in Insts : eng[i] = "running"}) <= 1
  /\ \A i \in Insts : eng[i] = "running" =>
       i = recognitionRef /\ engLang[i] = language

====
